---- MODULE Spec2Model ----
(***************************************************************************)
(* The frame dispatcher / accumulator of the path tracer (src/src/trace.rs, *)
(* struct Tracer) and its caller TracerProgram::draw (src/src/draw.rs).     *)
(*                                                                          *)
(* f32 values are modelled as exact rationals <<num, den>> in lowest terms, *)
(* u64 and u8 keep their saturating / wrapping behaviour at a scaled-down   *)
(* width (U64_MAX, U8_MAX).  A frame is split into the steps rayon runs:    *)
(* the sequential prologue, one task per row that advances pixel by pixel   *)
(* in any interleaving with the other rows, and the sequential epilogue.    *)
(* The function `trace` (with closest_hit, Sphere::intersect, direct_light  *)
(* and the BRDF of material.rs) is modelled on its own, one level of the    *)
(* recursion at a time, for primary rays and scenes of a few spheres.       *)
(***************************************************************************)
EXTENDS Integers, Sequences, FiniteSets, TLC

VARIABLES
    tracer,     \* the Tracer value driven by the application
    pc,         \* "idle" | "rows" (inside trace_frame) | "panicked"
    frame,      \* locals of the running trace_frame call, NoFrame when idle
    entry,      \* history: the Tracer as the running call found it
    rows,       \* per row task: its position in the row and its row seed
    access,     \* history: the <<row task, cell>> pairs touched this frame
    acc_sum,    \* history: per cell, sum of the samples of the current run
    acc_cnt,    \* history: number of frames of the current run
    tracerB,    \* a second, independent Tracer (driven under SpecPair only)
    tr,         \* the running call of `trace`: its stack of recursive calls
    last        \* history: the seeds of the last deterministic frame returned

vars ==
    <<tracer, pc, frame, entry, rows, access, acc_sum, acc_cnt, tracerB, tr, last>>

---------------------------------------------------------------------------
(* Bounds of the exploration.                                              *)

U64_MAX == 7       \* std::u64::MAX at the model's width
U8_MAX == 5        \* u8::MAX at the model's width
MaxSurfLog == 3    \* surface sizes 1, 2, .., 2^MaxSurfLog in each dimension
MaxCells == 4      \* frames with more than MaxCells pixels are not explored
MaxSide == 2       \* nor frames wider or higher than MaxSide
MaxRun == 2        \* frames explored per accumulation run
MaxCap == 1        \* accum_n_max is stepped within 0..MaxCap (or is U64_MAX)
EpsDen == 8        \* RAY_EPSILON is 1 / EpsDen

(* Program constants.                                                      *)
INIT_SUBSAMPLING == 4
MAX_BOUNCES == 3

Scenes == {0, 1}

---------------------------------------------------------------------------
(* f32 as exact rationals.                                                 *)

Max(a, b) == IF a >= b THEN a ELSE b
Min(a, b) == IF a <= b THEN a ELSE b

RECURSIVE GCD(_, _)
GCD(a, b) == IF b = 0 THEN a ELSE GCD(b, a % b)

Abs(n) == IF n < 0 THEN -n ELSE n

(* A non-finite f32 (NaN, or an infinity) is the pair with denominator 0.  *)
NaN == <<0, 0>>

Rat(n, d) ==
    LET g == GCD(Abs(n), d) IN
    IF d = 0 THEN NaN
    ELSE IF n = 0 THEN <<0, 1>> ELSE <<n \div g, d \div g>>

RAdd(p, q) == Rat(p[1] * q[2] + q[1] * p[2], p[2] * q[2])
RSub(p, q) == Rat(p[1] * q[2] - q[1] * p[2], p[2] * q[2])
RMul(p, q) == Rat(p[1] * q[1], p[2] * q[2])
RInt(n) == <<n, 1>>
RNeg(p) == <<-p[1], p[2]>>
RDiv(p, q) ==
    IF q[1] >= 0 THEN Rat(p[1] * q[2], p[2] * q[1])
    ELSE Rat(-(p[1] * q[2]), p[2] * (-q[1]))

(* f32 comparisons: every comparison with a NaN is false.                  *)
is_finite(p) == p[2] # 0
RLt(p, q) == is_finite(p) /\ is_finite(q) /\ p[1] * q[2] < q[1] * p[2]
RLe(p, q) == is_finite(p) /\ is_finite(q) /\ p[1] * q[2] <= q[1] * p[2]
RMin(p, q) == IF RLt(q, p) THEN q ELSE p
RMax(p, q) == IF RLt(p, q) THEN q ELSE p

RECURSIVE RPow(_, _)
RPow(p, n) == IF n = 0 THEN RInt(1) ELSE RMul(p, RPow(p, n - 1))

(* f32::sqrt, rounded down to the grid of the operand's denominator (exact *)
(* on squares); NaN for a negative or NaN operand.                         *)
RECURSIVE isqrt(_, _, _)
isqrt(n, lo, hi) ==
    IF hi - lo <= 1 THEN lo
    ELSE LET mid == (lo + hi) \div 2
         IN IF mid * mid <= n THEN isqrt(n, mid, hi) ELSE isqrt(n, lo, mid)

sqrt(p) ==
    IF ~is_finite(p) \/ p[1] < 0 THEN NaN
    ELSE Rat(isqrt(p[1] * p[2], 0, Min(p[1] * p[2] + 1, 46341)), p[2])

(* Vec3 / Pixel: a triple of f32.                                          *)
vec3(r, g, b) == <<RInt(r), RInt(g), RInt(b)>>
VScale(v, a) == <<RMul(v[1], a), RMul(v[2], a), RMul(v[3], a)>>
VAdd(v, u) == <<RAdd(v[1], u[1]), RAdd(v[2], u[2]), RAdd(v[3], u[3])>>
VSub(v, u) == <<RSub(v[1], u[1]), RSub(v[2], u[2]), RSub(v[3], u[3])>>
VNeg(v) == <<RNeg(v[1]), RNeg(v[2]), RNeg(v[3])>>
VDiv(v, a) == <<RDiv(v[1], a), RDiv(v[2], a), RDiv(v[3], a)>>
zeros == vec3(0, 0, 0)
dot(v, u) == RAdd(RAdd(RMul(v[1], u[1]), RMul(v[2], u[2])), RMul(v[3], u[3]))
cross(v, u) ==
    <<RSub(RMul(v[2], u[3]), RMul(v[3], u[2])),
      RSub(RMul(v[3], u[1]), RMul(v[1], u[3])),
      RSub(RMul(v[1], u[2]), RMul(v[2], u[1]))>>
component_mul(v, u) == <<RMul(v[1], u[1]), RMul(v[2], u[2]), RMul(v[3], u[3])>>
comp_max(v) == RMax(RMax(v[1], v[2]), v[3])
comp_min(v) == RMin(RMin(v[1], v[2]), v[3])
magnitude(v) == sqrt(dot(v, v))
normalize(v) == VDiv(v, magnitude(v))

ERR_COLOR == vec3(1000000, 0, 1000000)

(* glm::lerp(x, y, a) = x * (1 - a) + y * a                                *)
lerp(x, y, a) == VAdd(VScale(x, RSub(RInt(1), a)), VScale(y, a))

---------------------------------------------------------------------------
(* u64 / u8 arithmetic.                                                    *)

add_u64(a, b) == (a + b) % (U64_MAX + 1)
overflows_u64(a, b) == a + b > U64_MAX
saturating_add(v, max) == IF v + 1 > max THEN max ELSE v + 1
saturating_sub(v) == IF v = 0 THEN 0 ELSE v - 1

(* SmallRng::seed_from_u64(s).next_u64(): a fixed mixing of the seed.      *)
next_u64(s) == (5 * s + 1) % (U64_MAX + 1)

---------------------------------------------------------------------------
(* Tracer: construction and runtime commands.                              *)

(* Cam::new: dir = (target - pos).normalize(), which is NaN in every      *)
(* component when target = pos.                                            *)
Cam_new(pos, target) ==
    [pos |-> pos,
     dir |-> IF target = pos THEN [nan |-> TRUE, v |-> 0]
             ELSE [nan |-> FALSE, v |-> target - pos]]

(* The cameras the application hands over: main's camera, and moved.      *)
Cams == {Cam_new(0, 1), Cam_new(1, 2)}

Tracer_new ==
    [pixel_buf |-> <<>>,
     random_seed |-> TRUE,
     subsampling |-> INIT_SUBSAMPLING,
     accum_n_max |-> 0,
     accum_n |-> 0,
     reset_on_move |-> FALSE,
     dims |-> <<0, 0>>,
     prev_cam |-> Cam_new(0, 0)]

reset_accum(t) == [t EXCEPT !.accum_n = 0]

toggle_random_seed(t) ==
    reset_accum([t EXCEPT !.random_seed = ~t.random_seed])

toggle_reset_on_move(t) ==
    reset_accum([t EXCEPT !.reset_on_move = ~t.reset_on_move])

toggle_accum_no_reset(t) ==
    [t EXCEPT !.accum_n_max = IF t.accum_n_max = 0 THEN U64_MAX ELSE 0]

toggle_accum_bitwise_not(t) ==
    reset_accum([t EXCEPT !.accum_n_max = U64_MAX - t.accum_n_max])

toggle_accum(t) ==
    reset_accum([t EXCEPT !.accum_n_max =
                     IF t.accum_n_max = 0 THEN U64_MAX ELSE 0])

decrease_accum_n_max_no_reset(t) ==
    [t EXCEPT !.accum_n_max = saturating_sub(t.accum_n_max)]

decrease_accum_n_max(t) ==
    reset_accum([t EXCEPT !.accum_n_max = saturating_sub(t.accum_n_max)])

increase_accum_n_max(t) ==
    reset_accum([t EXCEPT !.accum_n_max = saturating_add(t.accum_n_max, U64_MAX)])

decrease_subsampling_denom_unfloored(t) ==
    reset_accum([t EXCEPT !.subsampling = saturating_sub(t.subsampling)])

decrease_subsampling_denom(t) ==
    reset_accum([t EXCEPT !.subsampling = Max(1, t.subsampling - 1)])

increase_subsampling_denom(t) ==
    reset_accum([t EXCEPT !.subsampling = saturating_add(t.subsampling, U8_MAX)])

resize_pixel_buf_black(t, dims) ==
    LET n == dims[1] * dims[2]
        len == Len(t.pixel_buf)
        buf == IF n <= len
               THEN SubSeq(t.pixel_buf, 1, n)
               ELSE t.pixel_buf \o [i \in 1..(n - len) |-> vec3(0, 0, 0)]
    IN reset_accum([t EXCEPT !.pixel_buf = buf, !.dims = dims])

resize_pixel_buf_no_reset(t, dims) ==
    LET n == dims[1] * dims[2]
        len == Len(t.pixel_buf)
        buf == IF n <= len
               THEN SubSeq(t.pixel_buf, 1, n)
               ELSE t.pixel_buf \o [i \in 1..(n - len) |-> ERR_COLOR]
    IN [t EXCEPT !.pixel_buf = buf, !.dims = dims]

resize_pixel_buf(t, dims) ==
    LET n == dims[1] * dims[2]
        len == Len(t.pixel_buf)
        buf == IF n <= len
               THEN SubSeq(t.pixel_buf, 1, n)
               ELSE t.pixel_buf \o [i \in 1..(n - len) |-> ERR_COLOR]
    IN reset_accum([t EXCEPT !.pixel_buf = buf, !.dims = dims])

---------------------------------------------------------------------------
(* TracerProgram::draw: the trace resolution handed to trace_frame.        *)

draw_dims(sw, sh, subsampling) == <<sw \div subsampling, sh \div subsampling>>

---------------------------------------------------------------------------
(* Tracer::trace_frame, sequential prologue (reset, prev_cam, resize,      *)
(* frame seed, blend weight).                                              *)

(* `cam != &self.prev_cam` on f32 fields: a NaN field differs from itself. *)
cam_ne(a, b) ==
    \/ a.pos # b.pos
    \/ a.dir # b.dir
    \/ a.dir.nan
    \/ b.dir.nan

frame_reset_ignoring_flag(t, cam) ==
    IF t.accum_n_max = 0 \/ cam_ne(cam, t.prev_cam) THEN reset_accum(t) ELSE t

frame_reset(t, cam) ==
    IF t.accum_n_max = 0 \/ (t.reset_on_move /\ cam_ne(cam, t.prev_cam))
    THEN reset_accum(t)
    ELSE t

frame_resize(t, dims) ==
    IF dims # t.dims THEN resize_pixel_buf(t, dims) ELSE t

frame_begin(t, cam, dims) ==
    frame_resize([frame_reset(t, cam) EXCEPT !.prev_cam = cam], dims)

frame_seed_always_random(t, rnd) == rnd

frame_seed(t, rnd) == IF t.random_seed THEN rnd ELSE t.accum_n

blend_weight_off_by_one(t) == Rat(1, t.accum_n + 2)

blend_weight(t) == Rat(1, t.accum_n + 1)

(* par_chunks_mut(w).enumerate(): chunk y covers the cells                 *)
(* [y*w, min((y+1)*w, len)); there are ceil(len / w) chunks.               *)
n_chunks_one_more(len, w) == len \div w + 1
n_chunks(len, w) == (len + w - 1) \div w
chunk_start_unscaled(y, w) == y
chunk_start(y, w) == y * w
chunk_len(y, w, len) == Min(w, len - y * w)

---------------------------------------------------------------------------
(* Tracer::trace_frame, the body of one row task.                          *)

row_seed_unshifted(seed, y) == next_u64(add_u64(seed, 2 * y))

row_seed(seed, y) == next_u64(add_u64(seed, y))

primary_ray(cam, w, h, x, y, rseed) ==
    [origin |-> cam.pos,
     dir |-> <<cam.dir.v, Rat(w, h), Rat(x, w), Rat(y, h)>>,
     bounces |-> MAX_BOUNCES,
     throughput |-> vec3(1, 1, 1),
     rng |-> add_u64(rseed, x)]

(* The radiance `trace` returns for a primary ray: a fixed function of the *)
(* ray (origin, direction, generator seed) and the scene.                  *)
Palette == <<vec3(0, 0, 0), vec3(3, 1, 0)>>

radiance(ray, scene) ==
    LET u == ray.dir[3]
        v == ray.dir[4]
        k == ray.origin + u[1] + u[2] + 2 * v[1] + v[2] + ray.rng + scene
    IN Palette[(k % Len(Palette)) + 1]

pixel_color(f, x, y, rseed) ==
    radiance(primary_ray(f.cam, f.w, f.h, x, y, rseed), f.scene)

blend_swapped(old_color, color, a) == lerp(color, old_color, a)

blend(old_color, color, a) == lerp(old_color, color, a)

frame_end_uncapped(t) == [t EXCEPT !.accum_n = t.accum_n + 1]

(* Tracer::trace_frame, epilogue.                                          *)
frame_end(t) ==
    IF t.accum_n < t.accum_n_max
    THEN [t EXCEPT !.accum_n = t.accum_n + 1]
    ELSE t

(* The radiance sample of every cell of the frame: cell i is column x of  *)
(* row y = chunk index.                                                    *)
frame_colors(f, len) ==
    [i \in 1..len |->
        LET y == (i - 1) \div f.w
            x == (i - 1) % f.w
        IN pixel_color(f, x, y, row_seed(f.seed, y))]

(* The cells of the frame as the row tasks leave them.                     *)
frame_blend(buf, colors, a) ==
    [i \in 1..Len(buf) |-> blend(buf[i], colors[i], a)]

frame_pixels(f, buf) == frame_blend(buf, frame_colors(f, Len(buf)), f.a)

frame_locals(t, cam, dims, scene, rnd) ==
    [cam |-> cam, scene |-> scene, w |-> dims[1], h |-> dims[2],
     seed |-> frame_seed(t, rnd), a |-> blend_weight(t),
     buf0 |-> t.pixel_buf]

(* par_chunks_mut(0) panics ("chunk_size must not be zero").               *)
chunks_panic(w) == w = 0

(* Some checked u64 addition of the frame overflows (seed + y, or          *)
(* row seed + x): a panic in builds with overflow checks, a wrap otherwise.*)
frame_overflows(f) ==
    \E y \in 0..(f.h - 1) :
        \/ overflows_u64(f.seed, y)
        \/ \E x \in 0..(f.w - 1) : overflows_u64(row_seed(f.seed, y), x)

(* A whole trace_frame call that returns.                                  *)
trace_frame(t, cam, dims, scene, rnd) ==
    LET t1 == frame_begin(t, cam, dims)
        f == frame_locals(t1, cam, dims, scene, rnd)
    IN frame_end([t1 EXCEPT !.pixel_buf = frame_pixels(f, t1.pixel_buf)])

---------------------------------------------------------------------------
(* Materials, spheres and ray / sphere intersection (material.rs, geom.rs).*)
(* An Option<T> is a sequence of at most one T.                            *)

None == <<>>
Some(v) == <<v>>

Mat_diffuse(color) == [color |-> color, fresnel |-> zeros, shininess |-> 0]

Sphere(centre, radius, mat) ==
    [centre |-> centre, radius |-> RInt(radius), mat |-> mat]

BasicRay(origin, dir) == [origin |-> origin, dir |-> dir]

(* The root the match of Sphere::intersect selects.                        *)
select_root(root0, root1) ==
    IF RLe(root0, root1) /\ RLe(RInt(0), root0) THEN Some(root0)
    ELSE IF ~RLe(root0, root1) /\ RLe(RInt(0), root1) THEN Some(root1)
    ELSE None

intersect(sphere, ray) ==
    LET oc == VSub(ray.origin, sphere.centre)
        a == dot(ray.dir, ray.dir)
        b == RMul(RInt(2), dot(oc, ray.dir))
        c == RSub(dot(oc, oc), RMul(sphere.radius, sphere.radius))
        discriminant == RSub(RMul(b, b), RMul(RMul(RInt(4), a), c))
    IN IF RLt(discriminant, RInt(0)) THEN None
       ELSE LET sdiscriminant == sqrt(discriminant)
                root0 == RSub(RNeg(b), sdiscriminant)
                root1 == RAdd(RNeg(b), sdiscriminant)
                mr == select_root(root0, root1)
            IN [i \in 1..Len(mr) |->
                   LET t == RDiv(mr[i], RMul(RInt(2), a))
                   IN [t |-> t,
                       normal |-> VDiv(VAdd(oc, VScale(ray.dir, t)), sphere.radius),
                       mat |-> sphere.mat]]

(* scene.iter().flat_map(|obj| obj.intersect(ray)): the hits, in the order *)
(* of the spheres of the scene.                                            *)
RECURSIVE flat_map_intersect(_, _)
flat_map_intersect(ray, scene) ==
    IF scene = <<>> THEN <<>>
    ELSE intersect(Head(scene), ray) \o flat_map_intersect(ray, Tail(scene))

(* Iterator::min_by with partial_cmp on t: the first of the minimal hits.  *)
RECURSIVE min_by_t(_)
min_by_t(hs) ==
    IF Len(hs) <= 1 THEN hs
    ELSE LET h1 == Head(hs)
             m == min_by_t(Tail(hs))[1]
         IN IF RLt(m.t, h1.t) THEN Some(m) ELSE Some(h1)

closest_hit(ray, scene) ==
    min_by_t(flat_map_intersect(BasicRay(ray.origin, ray.dir), scene))

any_hit(ray, scene) ==
    LET hs == flat_map_intersect(ray, scene)
    IN IF hs = <<>> THEN None ELSE Some(Head(hs))

---------------------------------------------------------------------------
(* BRDF and direction sampling (material.rs).                              *)

(* std::f32::consts::PI and FRAC_1_PI, at the model's precision.           *)
PI == Rat(22, 7)
FRAC_1_PI == Rat(7, 22)

ones == vec3(1, 1, 1)

(* f32::min / f32::max: a NaN operand is ignored.                          *)
f32_min(p, q) ==
    IF ~is_finite(p) THEN q ELSE IF ~is_finite(q) THEN p ELSE RMin(p, q)
f32_max(p, q) ==
    IF ~is_finite(p) THEN q ELSE IF ~is_finite(q) THEN p ELSE RMax(p, q)

F(wi, wh, fresnel) ==
    VAdd(fresnel,
         VScale(VSub(ones, fresnel), RPow(RSub(RInt(1), dot(wh, wi)), 5)))

D(wh, n, shininess) ==
    RMul(RDiv(RInt(shininess + 2), RMul(RInt(2), PI)),
         RPow(dot(n, wh), shininess))

G(wi, wo, wh, n) ==
    f32_min(RInt(1),
            f32_min(RDiv(RMul(RMul(RInt(2), dot(n, wh)), dot(n, wo)), dot(wo, wh)),
                    RDiv(RMul(RMul(RInt(2), dot(n, wh)), dot(n, wi)), dot(wo, wh))))

dielectric_reflection_brdf(wi, wo, n, mat) ==
    IF RLt(dot(wo, n), RInt(0)) THEN zeros
    ELSE LET wh == normalize(VAdd(wo, wi))
         IN VDiv(VScale(VScale(F(wi, wh, mat.fresnel), D(wh, n, mat.shininess)),
                        G(wi, wo, wh, n)),
                 RMul(RMul(RInt(4), dot(n, wo)), dot(n, wi)))

diffuse_brdf(wi, wo, n, mat) ==
    IF RLe(RInt(0), dot(wo, n)) /\ RLe(RInt(0), dot(wi, n))
    THEN VScale(mat.color, FRAC_1_PI)
    ELSE zeros

attenuate_diffuse_refraction(wi, wo, brdf_, mat) ==
    LET wh == normalize(VAdd(wo, wi))
    IN component_mul(VSub(ones, F(wi, wh, mat.fresnel)), brdf_)

dielectric_refraction_brdf(wi, wo, n, mat) ==
    attenuate_diffuse_refraction(wi, wo, diffuse_brdf(wi, wo, n, mat), mat)

brdf(wi, wo, n, mat) ==
    VAdd(dielectric_reflection_brdf(wi, wo, n, mat),
         dielectric_refraction_brdf(wi, wo, n, mat))

orthonormal_basis_inverse_transform(normal, wi) ==
    LET w_up == IF RLt(Rat(1, 10), Rat(Abs(normal[1][1]), normal[1][2]))
                THEN vec3(0, 1, 0) ELSE vec3(1, 0, 0)
        tangent == normalize(cross(normal, w_up))
        bitangent == normalize(cross(normal, tangent))
    IN VAdd(VAdd(VScale(tangent, wi[1]), VScale(bitangent, wi[2])),
            VScale(normal, wi[3]))

(* glm::reflect_vec(i, n) = i - 2 * dot(n, i) * n                          *)
reflect_vec(i, n) == VSub(i, VScale(n, RMul(RInt(2), dot(n, i))))

(* The generator's draws are inputs of the sampler: `local` is the vector  *)
(* the draws give around the world-up axis (cosine_sample_hemisphere, or   *)
(* the microfacet normal), `reflect` the outcome of rand() < p.            *)
diffuse_sample_wi(wo, n, mat, local) ==
    LET wi == orthonormal_basis_inverse_transform(n, local)
    IN [wi |-> wi,
        pdf |-> RMul(f32_max(RInt(0), dot(n, wi)), FRAC_1_PI),
        brdf |-> diffuse_brdf(wi, wo, n, mat)]

dielectric_refraction_sample_wi(wo, n, mat, local) ==
    LET sample == diffuse_sample_wi(wo, n, mat, local)
    IN [sample EXCEPT
           !.brdf = attenuate_diffuse_refraction(sample.wi, wo, sample.brdf, mat)]

dielectric_reflection_sample_wi(wo, n, mat, local) ==
    LET wh == orthonormal_basis_inverse_transform(n, local)
        pdf_wh == RDiv(RMul(RInt(mat.shininess + 1), RPow(dot(n, wh), mat.shininess)),
                       RMul(RInt(2), PI))
        wi == reflect_vec(VNeg(wo), wh)
        pdf_wi == IF RLe(RInt(0), dot(wi, n))
                  THEN RDiv(pdf_wh, RMul(RInt(4), dot(wo, wh)))
                  ELSE RInt(0)
    IN [wi |-> wi, pdf |-> pdf_wi,
        brdf |-> dielectric_reflection_brdf(wi, wo, n, mat)]

dielectric_sample_wi(wo, n, mat, reflect, local) ==
    LET p == RAdd(Rat(1, 2), RDiv(comp_min(mat.fresnel), RInt(2)))
    IN IF reflect
       THEN LET sample == dielectric_reflection_sample_wi(wo, n, mat, local)
            IN [sample EXCEPT !.pdf = RMul(sample.pdf, p)]
       ELSE LET sample == dielectric_refraction_sample_wi(wo, n, mat, local)
            IN [sample EXCEPT !.pdf = RMul(sample.pdf, RSub(RInt(1), p))]

sample_wi(wo, n, mat, reflect, local) ==
    dielectric_sample_wi(wo, n, mat, reflect, local)

---------------------------------------------------------------------------
(* trace and direct_light (trace.rs).                                      *)

background_color == <<Rat(1, 2), Rat(7, 10), RInt(1)>>

(* RAY_EPSILON, 0.0001 in the source, at the model's precision.            *)
RAY_EPSILON == Rat(1, EpsDen)

light_pos == vec3(10, 20, -10)
light_emission == vec3(1400, 1330, 1260)

direct_light_unshadowed(hit, hit_pos, wo, scene) ==
    LET dist == magnitude(VSub(light_pos, hit_pos))
        wl == normalize(VSub(light_pos, hit_pos))
    IN IF RLe(dot(hit.normal, wl), RInt(0)) THEN zeros
       ELSE component_mul(light_emission,
                          VDiv(VScale(brdf(wl, wo, hit.normal, hit.mat),
                                      dot(hit.normal, wl)),
                               RMul(dist, dist)))

direct_light(hit, hit_pos, wo, scene) ==
    LET dist == magnitude(VSub(light_pos, hit_pos))
        wl == normalize(VSub(light_pos, hit_pos))
    IN IF RLe(dot(hit.normal, wl), RInt(0)) THEN zeros
       ELSE LET shadow_ray == BasicRay(VAdd(hit_pos, VScale(wl, RAY_EPSILON)), wl)
                in_shadow == any_hit(shadow_ray, scene) # None
            IN IF in_shadow THEN zeros
               ELSE LET weight ==
                            VDiv(VScale(brdf(wl, wo, hit.normal, hit.mat),
                                        dot(hit.normal, wl)),
                                 RMul(dist, dist))
                    IN component_mul(light_emission, weight)

(* The calls direct_light makes: the shadow test any_hit, unless it has    *)
(* returned before it.                                                     *)
direct_light_calls(hit, hit_pos) ==
    LET wl == normalize(VSub(light_pos, hit_pos))
    IN IF RLe(dot(hit.normal, wl), RInt(0)) THEN <<>> ELSE <<"any_hit">>

---------------------------------------------------------------------------
(* The state machine.                                                      *)

NoFrame ==
    [cam |-> Cam_new(0, 0), scene |-> 0, w |-> 0, h |-> 0,
     seed |-> 0, a |-> RInt(1), buf0 |-> <<>>]

NoTrace ==
    [phase |-> "idle", scene |-> <<>>, stack |-> <<>>, ret |-> zeros, log |-> <<>>,
     path |-> <<>>]

Init ==
    /\ tracer = Tracer_new
    /\ tracerB = Tracer_new
    /\ pc = "idle"
    /\ frame = NoFrame
    /\ entry = Tracer_new
    /\ rows = <<>>
    /\ access = <<>>
    /\ acc_sum = <<>>
    /\ acc_cnt = 0
    /\ tr = NoTrace
    /\ last = None

(* History: the frame seed and the row seeds of a frame that returns, kept *)
(* for frames seeded by the counter (random_seed off); t is the Tracer as  *)
(* the prologue left it.                                                   *)
LastFrame(t, f, seeds) ==
    IF t.random_seed THEN None
    ELSE Some([accum_n |-> t.accum_n, seed |-> f.seed, w |-> f.w, h |-> f.h,
               seeds |-> seeds])

(* A runtime command, issued between frames (main loop, key handling).     *)
Command(tA, tB) ==
    /\ pc = "idle"
    /\ tracer' = tA
    /\ tracerB' = tB
    /\ acc_cnt' = 0
    /\ acc_sum' = <<>>
    /\ last' = None
    /\ UNCHANGED <<pc, frame, entry, rows, access, tr>>

Other(pair, tB) == IF pair THEN tB ELSE tracerB

ToggleRandomSeed(pair) ==
    Command(toggle_random_seed(tracer), Other(pair, toggle_random_seed(tracerB)))

ToggleResetOnMove(pair) ==
    Command(toggle_reset_on_move(tracer), Other(pair, toggle_reset_on_move(tracerB)))

ToggleAccum(pair) ==
    Command(toggle_accum(tracer), Other(pair, toggle_accum(tracerB)))

DecreaseAccumNMax(pair) ==
    /\ tracer.accum_n_max <= MaxCap
    /\ Command(decrease_accum_n_max(tracer),
               Other(pair, decrease_accum_n_max(tracerB)))

IncreaseAccumNMax(pair) ==
    /\ tracer.accum_n_max < MaxCap \/ tracer.accum_n_max = U64_MAX
    /\ Command(increase_accum_n_max(tracer),
               Other(pair, increase_accum_n_max(tracerB)))

DecreaseSubsamplingDenom(pair) ==
    Command(decrease_subsampling_denom(tracer),
            Other(pair, decrease_subsampling_denom(tracerB)))

IncreaseSubsamplingDenom(pair) ==
    Command(increase_subsampling_denom(tracer),
            Other(pair, increase_subsampling_denom(tracerB)))

RECURSIVE Pow2(_)
Pow2(k) == IF k = 0 THEN 1 ELSE 2 * Pow2(k - 1)

(* surface.size(): at least 1 in each dimension.                           *)
SurfSizes == {Pow2(k) : k \in 0..MaxSurfLog}

(* TracerProgram::draw: the trace resolutions the surface sizes give.      *)
DrawDims(t) ==
    {draw_dims(sw, sh, t.subsampling) : sw \in SurfSizes, sh \in SurfSizes}

(* rand::random() is drawn only when random_seed is on.                    *)
Rnd(t) == IF t.random_seed THEN {0, U64_MAX} ELSE {0}

(* Under SpecPair each Tracer has its own random source, drawing from two *)
(* values; trace_frame reads it only when random_seed is on.               *)
PairSeeds == {0, U64_MAX}

Explored(t1, dims) ==
    /\ dims[1] * dims[2] <= MaxCells
    /\ dims[1] <= MaxSide /\ dims[2] <= MaxSide
    /\ t1.accum_n = 0 \/ acc_cnt < MaxRun

(* The history of the accumulation run after a frame with locals f that    *)
(* started with accum_n = n.                                               *)
RunCount(n) == IF n = 0 THEN 1 ELSE acc_cnt + 1
RunSum(n, colors) ==
    [i \in 1..Len(colors) |->
        IF n = 0 THEN colors[i] ELSE VAdd(acc_sum[i], colors[i])]

(* TracerProgram::draw: one trace_frame call, from the call to its return. *)
TraceFrame(pair) ==
    \E cam \in Cams, scene \in Scenes, dims \in DrawDims(tracer) :
      \E rnd \in IF pair THEN PairSeeds ELSE Rnd(tracer),
         rndB \in IF pair THEN PairSeeds ELSE {0} :
        LET t1 == frame_begin(tracer, cam, dims)
            f == frame_locals(t1, cam, dims, scene, rnd)
            colors == frame_colors(f, Len(t1.pixel_buf))
        IN /\ pc = "idle"
           /\ Explored(t1, dims)
           /\ ~chunks_panic(dims[1])
           /\ tracer' = frame_end([t1 EXCEPT !.pixel_buf =
                                       frame_blend(t1.pixel_buf, colors, f.a)])
           /\ tracerB' = Other(pair, trace_frame(tracerB, cam, dims, scene, rndB))
           /\ acc_cnt' = RunCount(t1.accum_n)
           /\ acc_sum' = RunSum(t1.accum_n, colors)
           /\ last' = LastFrame(t1, f,
                                [y \in 0..(n_chunks(Len(t1.pixel_buf), dims[1]) - 1) |->
                                    row_seed(f.seed, y)])
           /\ UNCHANGED <<pc, frame, entry, rows, access, tr>>

(* The trace_frame call panics: in par_chunks_mut(0), or, in a build with  *)
(* overflow checks, in an overflowing u64 addition of a row task.          *)
TraceFramePanic ==
    \E cam \in Cams, scene \in Scenes, dims \in DrawDims(tracer) :
      \E rnd \in Rnd(tracer) :
        LET t1 == frame_begin(tracer, cam, dims)
            f == frame_locals(t1, cam, dims, scene, rnd)
        IN /\ pc = "idle"
           /\ Explored(t1, dims)
           /\ chunks_panic(dims[1]) \/ frame_overflows(f)
           /\ tracer' = t1
           /\ pc' = "panicked"
           /\ UNCHANGED <<tracerB, frame, entry, rows, access, acc_sum, acc_cnt, tr, last>>

---------------------------------------------------------------------------
(* The same call step by step, as rayon runs it.                           *)

(* The prologue; then the row tasks are spawned.                           *)
Dispatch ==
    \E cam \in Cams, scene \in Scenes, dims \in DrawDims(tracer) :
      \E rnd \in Rnd(tracer) :
        LET t1 == frame_begin(tracer, cam, dims)
            f == frame_locals(t1, cam, dims, scene, rnd)
            len == Len(t1.pixel_buf)
        IN /\ pc = "idle"
           /\ Explored(t1, dims)
           /\ tracer' = t1
           /\ frame' = f
           /\ entry' = tracer
           /\ pc' = IF chunks_panic(dims[1]) THEN "panicked" ELSE "rows"
           /\ rows' = IF chunks_panic(dims[1]) THEN <<>>
                      ELSE [y \in 0..(n_chunks(len, dims[1]) - 1) |->
                               [x |-> -1, seed |-> 0]]
           /\ access' = [i \in 1..len |-> <<>>]
           /\ acc_cnt' = RunCount(t1.accum_n)
           /\ acc_sum' = IF t1.accum_n = 0
                         THEN [i \in 1..len |-> vec3(0, 0, 0)]
                         ELSE acc_sum
           /\ UNCHANGED <<tracerB, tr, last>>

(* Row task y starts: it derives its row seed from the frame seed.         *)
RowStart(y) ==
    /\ pc = "rows"
    /\ rows[y].x = -1
    /\ rows' = [rows EXCEPT ![y] = [x |-> 0, seed |-> row_seed(frame.seed, y)]]
    /\ UNCHANGED <<tracer, tracerB, pc, frame, entry, access, acc_sum, acc_cnt, tr, last>>

(* Row task y traces and blends its next pixel.                            *)
PixelStep(y) ==
    LET x == rows[y].x
        len == Len(tracer.pixel_buf)
        i == chunk_start(y, frame.w) + x + 1
        color == pixel_color(frame, x, y, rows[y].seed)
    IN /\ pc = "rows"
       /\ x >= 0 /\ x < frame.w
       /\ x < chunk_len(y, frame.w, len)
       /\ tracer' = [tracer EXCEPT !.pixel_buf[i] = blend(@, color, frame.a)]
       /\ rows' = [rows EXCEPT ![y].x = x + 1]
       /\ access' = [access EXCEPT ![i] = Append(@, y)]
       /\ acc_sum' = [acc_sum EXCEPT ![i] = VAdd(@, color)]
       /\ UNCHANGED <<tracerB, pc, frame, entry, acc_cnt, tr, last>>

(* A row task panics: a checked u64 addition overflows, or the loop        *)
(* indexes past the end of its chunk.                                      *)
TaskPanic(y) ==
    LET x == rows[y].x IN
    /\ pc = "rows"
    /\ \/ x = -1 /\ overflows_u64(frame.seed, y)
       \/ x >= 0 /\ x < frame.w /\ overflows_u64(rows[y].seed, x)
       \/ x >= 0 /\ x < frame.w
          /\ x >= chunk_len(y, frame.w, Len(tracer.pixel_buf))
    /\ pc' = "panicked"
    /\ UNCHANGED <<tracer, tracerB, frame, entry, rows, access, acc_sum, acc_cnt, tr, last>>

AllRowsDone == \A y \in DOMAIN rows : rows[y].x = frame.w

(* All row tasks have joined: the epilogue, and trace_frame returns.       *)
Join ==
    /\ pc = "rows"
    /\ AllRowsDone
    /\ tracer' = frame_end(tracer)
    /\ pc' = "idle"
    /\ frame' = NoFrame
    /\ entry' = Tracer_new
    /\ rows' = <<>>
    /\ access' = <<>>
    /\ last' = LastFrame(tracer, frame, [y \in DOMAIN rows |-> rows[y].seed])
    /\ UNCHANGED <<tracerB, acc_sum, acc_cnt, tr>>

---------------------------------------------------------------------------
(* One call of `trace` for a primary ray, level by level.                  *)

(* A ray that is traced; the generator it carries is the source of the     *)
(* draws the sampling steps take as inputs.                                *)
Ray(origin, dir, bounces, throughput) ==
    [origin |-> origin, dir |-> dir, bounces |-> bounces, throughput |-> throughput]

(* The spheres and scenes explored: one sphere right below the light, a    *)
(* smaller one between it and the light, in both orders; a black sphere;   *)
(* two spheres that face each other, both lit.                             *)
sphere_low == Sphere(vec3(10, 10, -10), 2, Mat_diffuse(vec3(1, 0, 0)))
sphere_high == Sphere(vec3(10, 15, -10), 1, Mat_diffuse(vec3(1, 0, 1)))
sphere_black == Sphere(vec3(10, 10, -10), 2, Mat_diffuse(vec3(0, 0, 0)))
sphere_left == Sphere(vec3(6, 16, -10), 1, Mat_diffuse(vec3(1, 0, 0)))
sphere_right == Sphere(vec3(14, 16, -10), 1, Mat_diffuse(vec3(1, 0, 1)))

TraceScenes ==
    {<<>>, <<sphere_low>>, <<sphere_low, sphere_high>>, <<sphere_high, sphere_low>>,
     <<sphere_black>>, <<sphere_left, sphere_right>>}

(* Primary rays (trace.rs:81-90): from above the spheres, from between     *)
(* them, from the centre of a sphere, from its surface, and grazing it;    *)
(* and one between the spheres that face each other.                       *)
PrimaryRays ==
    {Ray(o, d, MAX_BOUNCES, ones) :
        o \in {vec3(10, 18, -10), vec3(12, 18, -10), vec3(10, 13, -10),
               vec3(10, 12, -10), vec3(10, 10, -10)},
        d \in {vec3(0, -1, 0), vec3(0, 1, 0)}}
    \cup {Ray(vec3(10, 16, -10), vec3(-1, 0, 0), MAX_BOUNCES, ones)}

(* What the draws of a sampling step can give: the branch taken, and the   *)
(* sampled vector around the world-up axis.                                *)
LocalDirs == {vec3(0, 0, 1), vec3(1, 0, 0), <<Rat(3, 5), RInt(0), Rat(4, 5)>>}

Level(ray) == [ray |-> ray, state |-> "called", hit |-> None, result |-> zeros]

Top == tr.stack[Len(tr.stack)]
Depth == Len(tr.stack)
SetTop(level) == [tr.stack EXCEPT ![Len(tr.stack)] = level]
Logged(events) == tr.log \o [i \in 1..Len(events) |-> <<Len(tr.stack), events[i]>>]

FrameVars ==
    <<tracer, pc, frame, entry, rows, access, acc_sum, acc_cnt, tracerB, last>>

(* f32 `!=`: true when either side is a NaN.                               *)
f32_ne(p, q) == ~is_finite(p) \/ ~is_finite(q) \/ p # q

trace_miss_unscaled(ray) == background_color

(* The else branch of trace: no hit.                                       *)
trace_miss(ray) == component_mul(background_color, ray.throughput)

trace_result_unweighted(radiance_, ray) == radiance_

(* let mut result = radiance.component_mul(&ray.throughput)                *)
trace_result(radiance_, ray) == component_mul(radiance_, ray.throughput)

(* History: what one level of the path did. `direct` is what direct_light  *)
(* returned, `pdf` and `next` the sampled pdf and the new throughput.      *)
PathHit(ray, radiance_, sample, throughput, recursed) ==
    [missed |-> FALSE, throughput |-> ray.throughput, bounces |-> ray.bounces,
     direct |-> radiance_, pdf |-> sample.pdf, next |-> throughput,
     recursed |-> recursed]

PathMiss(ray) ==
    [missed |-> TRUE, throughput |-> ray.throughput, bounces |-> ray.bounces,
     direct |-> zeros, pdf |-> RInt(0), next |-> zeros, recursed |-> FALSE]

trace_throughput_unguarded(ray, hit, sample) ==
    LET cosineterm == LET d == dot(sample.wi, hit.normal)
                      IN IF RLt(d, RInt(0)) THEN RNeg(d) ELSE d
    IN component_mul(ray.throughput,
                     VDiv(VScale(sample.brdf, cosineterm), sample.pdf))

trace_throughput(ray, hit, sample) ==
    LET cosineterm == LET d == dot(sample.wi, hit.normal)
                      IN IF RLt(d, RInt(0)) THEN RNeg(d) ELSE d
    IN IF f32_ne(sample.pdf, RInt(0))
       THEN component_mul(ray.throughput,
                          VDiv(VScale(sample.brdf, cosineterm), sample.pdf))
       ELSE zeros

trace_recurses(ray, throughput) ==
    ray.bounces > 0 /\ RLt(Rat(1, 100), comp_max(throughput))

indirect_ray(ray, hit_pos, sample, throughput) ==
    Ray(VAdd(hit_pos, VScale(sample.wi, RAY_EPSILON)), sample.wi,
        ray.bounces - 1, throughput)

(* trace_frame calls trace for a primary ray.                              *)
TraceBegin ==
    /\ tr.phase \in {"idle", "done"}
    /\ \E scene \in TraceScenes, ray \in PrimaryRays :
          tr' = [phase |-> "run", scene |-> scene, stack |-> <<Level(ray)>>,
                 ret |-> zeros, log |-> <<>>, path |-> <<>>]
    /\ UNCHANGED FrameVars

(* closest_hit finds nothing: the level returns the background.            *)
TraceMiss ==
    /\ tr.phase = "run"
    /\ Top.state = "called"
    /\ closest_hit(Top.ray, tr.scene) = None
    /\ tr' = [tr EXCEPT
                 !.stack = SetTop([Top EXCEPT
                     !.state = "returned",
                     !.result = trace_miss(Top.ray)]),
                 !.log = Logged(<<"closest_hit">>),
                 !.path = Append(@, PathMiss(Top.ray))]
    /\ UNCHANGED FrameVars

(* closest_hit finds a hit: direct light, sampling, and either the         *)
(* recursive call for the indirect ray or the return of the level.         *)
TraceHit ==
    /\ tr.phase = "run"
    /\ Top.state = "called"
    /\ closest_hit(Top.ray, tr.scene) # None
    /\ \E reflect \in BOOLEAN, local \in LocalDirs :
       \E ray \in {Top.ray} :
       \E hit \in {closest_hit(ray, tr.scene)[1]} :
       \E wo \in {VNeg(ray.dir)} :
       \E hit_pos \in {VAdd(ray.origin, VScale(ray.dir, hit.t))} :
       \E radiance_ \in {direct_light(hit, hit_pos, wo, tr.scene)} :
       \E sample \in {sample_wi(wo, hit.normal, hit.mat, reflect, local)} :
       \E throughput \in {trace_throughput(ray, hit, sample)} :
       \E level \in {[Top EXCEPT !.hit = Some(hit),
                                 !.result = trace_result(radiance_, ray)]} :
       \E calls \in {<<"closest_hit", "direct_light">>
                        \o direct_light_calls(hit, hit_pos) \o <<"sample_wi">>} :
          IF trace_recurses(ray, throughput)
          THEN tr' = [tr EXCEPT
                  !.stack = Append(SetTop([level EXCEPT !.state = "waiting"]),
                                   Level(indirect_ray(ray, hit_pos, sample, throughput))),
                  !.log = Logged(calls \o <<"trace">>),
                  !.path = Append(@, PathHit(ray, radiance_, sample, throughput, TRUE))]
          ELSE tr' = [tr EXCEPT
                  !.stack = SetTop([level EXCEPT !.state = "returned"]),
                  !.log = Logged(calls),
                  !.path = Append(@, PathHit(ray, radiance_, sample, throughput, FALSE))]
    /\ UNCHANGED FrameVars

(* The recursive call returns: result += trace(indirect_ray, scene).       *)
TraceReturn ==
    /\ tr.phase = "run"
    /\ Depth >= 2
    /\ Top.state = "returned"
    /\ LET parent == tr.stack[Depth - 1]
       IN tr' = [tr EXCEPT
                    !.stack = Append(SubSeq(tr.stack, 1, Depth - 2),
                                     [parent EXCEPT
                                         !.state = "returned",
                                         !.result = VAdd(parent.result, Top.result)])]
    /\ UNCHANGED FrameVars

(* The call for the primary ray returns to trace_frame.                    *)
TraceEnd ==
    /\ tr.phase = "run"
    /\ Depth = 1
    /\ Top.state = "returned"
    /\ tr' = [tr EXCEPT !.phase = "done", !.ret = Top.result]
    /\ UNCHANGED FrameVars

---------------------------------------------------------------------------
(* Specifications.                                                         *)

(* The application's main loop: commands and whole frames.                 *)
Next ==
    \/ ToggleRandomSeed(FALSE)
    \/ ToggleResetOnMove(FALSE)
    \/ ToggleAccum(FALSE)
    \/ DecreaseAccumNMax(FALSE)
    \/ IncreaseAccumNMax(FALSE)
    \/ DecreaseSubsamplingDenom(FALSE)
    \/ IncreaseSubsamplingDenom(FALSE)
    \/ TraceFrame(FALSE)
    \/ TraceFramePanic

Spec == Init /\ [][Next]_vars

(* Frames at the grain of the row tasks.                                   *)
NextRows ==
    \/ ToggleAccum(FALSE)
    \/ ToggleRandomSeed(FALSE)
    \/ ToggleResetOnMove(FALSE)
    \/ Dispatch
    \/ \E y \in DOMAIN rows : RowStart(y)
    \/ \E y \in DOMAIN rows : PixelStep(y)
    \/ \E y \in DOMAIN rows : TaskPanic(y)
    \/ Join

SpecRows == Init /\ [][NextRows]_vars

(* Two Tracers driven by the same commands and the same frames.            *)
NextPair ==
    \/ ToggleRandomSeed(TRUE)
    \/ ToggleResetOnMove(TRUE)
    \/ ToggleAccum(TRUE)
    \/ DecreaseAccumNMax(TRUE)
    \/ IncreaseAccumNMax(TRUE)
    \/ TraceFrame(TRUE)

SpecPair == Init /\ [][NextPair]_vars

(* Calls of trace, level by level.                                         *)
NextTrace ==
    \/ TraceBegin
    \/ TraceMiss
    \/ TraceHit
    \/ TraceReturn
    \/ TraceEnd

SpecTrace == Init /\ [][NextTrace]_vars

---------------------------------------------------------------------------
(* Properties.                                                             *)

Buf == tracer.pixel_buf

(* A step that is one returning trace_frame call which continued the       *)
(* accumulation run (no reset before or inside the call).                  *)
FrameContinues == pc = "idle" /\ pc' = "idle" /\ acc_cnt >= 1 /\ acc_cnt' = acc_cnt + 1

(* A step that is a returning trace_frame call starting a new run.         *)
FrameStartsRun == pc = "idle" /\ pc' = "idle" /\ acc_cnt' = 1

(* A step that is a runtime command.                                       *)
CommandStep == pc = "idle" /\ pc' = "idle" /\ acc_cnt' = 0

Capped == tracer.accum_n_max >= 1 /\ tracer.accum_n = tracer.accum_n_max

(* The radiance sample of cell i in the frame of the step.                 *)
SampleOfStep(i) == VSub(acc_sum'[i], acc_sum[i])

(* C1, as stated: once accum_n = accum_n_max >= 1, a further trace_frame   *)
(* call without a reset leaves every pixel of the buffer unchanged.        *)
C1_CappedFrameIsStatic ==
    [][(Capped /\ FrameContinues) => tracer'.pixel_buf = Buf]_vars

(* C1, amended: once accum_n = accum_n_max >= 1, a further trace_frame     *)
(* call without a reset keeps accum_n at the cap and still blends every    *)
(* pixel with its sample, at the constant weight 1 / (accum_n_max + 1).    *)
C1_CappedFrameBlends ==
    [][(Capped /\ FrameContinues) =>
          /\ tracer'.accum_n = tracer.accum_n_max
          /\ Len(tracer'.pixel_buf) = Len(Buf)
          /\ \A i \in 1..Len(Buf) :
                tracer'.pixel_buf[i] =
                    lerp(Buf[i], SampleOfStep(i), Rat(1, tracer.accum_n_max + 1))]_vars

(* A capped run in which a further frame has been blended in.              *)
C1_Witness ==
    /\ pc = "idle"
    /\ Capped
    /\ acc_cnt > tracer.accum_n_max
    /\ \E i \in 1..Len(Buf) : VScale(Buf[i], RInt(tracer.accum_n_max)) # acc_sum[i]

C4_ResetOnMove ==
    pc # "idle" =>
        /\ tracer.prev_cam = frame.cam
        /\ (entry.reset_on_move /\ frame.cam # entry.prev_cam) =>
              /\ tracer.accum_n = 0
              /\ frame.a = RInt(1)
              /\ ~entry.random_seed => frame.seed = 0
        /\ (~entry.reset_on_move /\ entry.accum_n_max # 0
               /\ <<frame.w, frame.h>> = entry.dims) =>
              /\ tracer.accum_n = entry.accum_n
              /\ frame.a = Rat(1, entry.accum_n + 1)
              /\ ~entry.random_seed => frame.seed = entry.accum_n

(* A call with a moved camera, in the middle of a run, reset_on_move on.   *)
C4_Witness ==
    /\ pc = "rows"
    /\ entry.reset_on_move
    /\ entry.accum_n >= 1
    /\ frame.cam # entry.prev_cam
    /\ <<frame.w, frame.h>> = entry.dims

(* C5: the buffer always has dims[0] * dims[1] cells and, inside and after *)
(* a call, the stored dims are the call's; a call with new dims finds      *)
(* every cell beyond the previous length set to ERR_COLOR until a task     *)
(* writes it, and has accum_n = 0 when its blend weight is taken.          *)
C5_Resize ==
    /\ Len(Buf) = tracer.dims[1] * tracer.dims[2]
    /\ pc # "idle" =>
          /\ tracer.dims = <<frame.w, frame.h>>
          /\ Len(frame.buf0) = frame.w * frame.h
          /\ tracer.dims # entry.dims =>
                /\ tracer.accum_n = 0
                /\ frame.a = RInt(1)
                /\ \A i \in (Len(entry.pixel_buf) + 1)..Len(Buf) :
                      /\ frame.buf0[i] = ERR_COLOR
                      /\ access[i] = <<>> => Buf[i] = ERR_COLOR

(* A call that grows a non-empty buffer, with a first cell written.        *)
C5_Witness ==
    /\ pc = "rows"
    /\ tracer.dims # entry.dims
    /\ Len(entry.pixel_buf) >= 1
    /\ Len(Buf) > Len(entry.pixel_buf)
    /\ \E i \in 1..Len(Buf) : access[i] # <<>>
    /\ \E i \in 1..Len(Buf) : access[i] = <<>>

(* C6, as stated: no trace_frame call whose dims have width 0 or height 0  *)
(* returns.                                                                *)
C6_ZeroDimsNeverReturn ==
    (pc = "idle" /\ acc_cnt >= 1) => (tracer.dims[1] >= 1 /\ tracer.dims[2] >= 1)

(* C7, as stated: for every surface size >= 1 and the current subsampling  *)
(* divisor, both trace dims are >= 1.                                      *)
C7_TraceDimsAtLeastOne ==
    \A sw \in SurfSizes, sh \in SurfSizes :
        /\ draw_dims(sw, sh, tracer.subsampling)[1] >= 1
        /\ draw_dims(sw, sh, tracer.subsampling)[2] >= 1

(* The cells of row y as its task must leave them: a function of the row   *)
(* index, the frame seed, the blend weight, camera, scene and the row's    *)
(* previous contents.                                                      *)
RowResult(y) ==
    [x \in 0..(frame.w - 1) |->
        lerp(frame.buf0[y * frame.w + x + 1],
             radiance(primary_ray(frame.cam, frame.w, frame.h, x, y,
                                  next_u64(add_u64(frame.seed, y))),
                      frame.scene),
             frame.a)]

(* C8: whatever the interleaving of the row tasks, a finished row holds    *)
(* RowResult, and so does the whole buffer when all tasks have joined.     *)
C8_RowsDeterministic ==
    pc = "rows" =>
        \A y \in DOMAIN rows :
            rows[y].x = frame.w =>
                \A x \in 0..(frame.w - 1) : Buf[y * frame.w + x + 1] = RowResult(y)[x]

(* All tasks of a 2 x 2 (or larger) frame have joined, blending with       *)
(* weight below 1.                                                         *)
C8_Witness ==
    /\ pc = "rows"
    /\ AllRowsDone
    /\ frame.w >= 2 /\ frame.h >= 2
    /\ frame.a # RInt(1)
    /\ \E i \in 1..Len(Buf) : Buf[i] # frame.buf0[i]

(* C9: there are exactly h row tasks, y = 0..h-1; the task of row y        *)
(* touches only the cells [y*w, (y+1)*w); no cell is touched by two tasks  *)
(* or twice; when all have joined every cell was written exactly once.     *)
C9_RowsDisjoint ==
    pc = "rows" =>
        /\ DOMAIN rows = 0..(frame.h - 1)
        /\ Len(access) = frame.w * frame.h
        /\ \A i \in 1..Len(access) :
              /\ Len(access[i]) <= 1
              /\ \A k \in 1..Len(access[i]) :
                    /\ access[i][k] * frame.w <= i - 1
                    /\ i - 1 < (access[i][k] + 1) * frame.w
              /\ AllRowsDone => Len(access[i]) = 1

(* Two tasks of a frame at least 2 x 2 are both in the middle of their row.*)
C9_Witness ==
    /\ pc = "rows"
    /\ frame.w >= 2 /\ frame.h >= 2
    /\ \E y1, y2 \in DOMAIN rows :
          /\ y1 # y2
          /\ rows[y1].x = 1
          /\ rows[y2].x = 1

(* C10: with random_seed off the frame seed is the counter accum_n         *)
(* whatever the random source holds, and two Tracers driven by the same    *)
(* commands and frames are identical after every frame.                    *)
C10_Reproducible ==
    (pc = "idle" /\ ~tracer.random_seed) =>
        /\ \A rnd \in 0..U64_MAX : frame_seed(tracer, rnd) = tracer.accum_n
        /\ acc_cnt >= 1 => tracerB = tracer

(* Two deterministic frames accumulated by both Tracers into a buffer of   *)
(* at least two cells, some cell holding a mean of different samples.      *)
C10_Witness ==
    /\ pc = "idle"
    /\ ~tracer.random_seed
    /\ acc_cnt >= 2
    /\ Len(Buf) >= 2
    /\ tracerB = tracer
    /\ \E i \in 1..Len(Buf) : \A k \in 1..Len(Palette) : Buf[i] # Palette[k]

C18_PixelCentre ==
    pc = "rows" =>
        \A y \in 0..(frame.h - 1), x \in 0..(frame.w - 1) :
            LET ray == primary_ray(frame.cam, frame.w, frame.h, x, y,
                                   row_seed(frame.seed, y))
            IN /\ ray.dir[3] = Rat(2 * x + 1, 2 * frame.w)
               /\ ray.dir[4] = Rat(2 * y + 1, 2 * frame.h)

(* A step that is a toggle_accum command.                                  *)
ToggleAccumStep == pc = "idle" /\ pc' = "idle" /\ tracer' = toggle_accum(tracer)

(* C19: toggle_accum enables accumulation iff it was disabled; enabling    *)
(* sets the cap to u64::MAX, disabling sets it to 0 from any cap; a new    *)
(* Tracer has accumulation disabled.                                       *)
C19_ToggleAccum ==
    [][/\ Tracer_new.accum_n_max = 0
       /\ ToggleAccumStep =>
             /\ (tracer'.accum_n_max # 0) <=> (tracer.accum_n_max = 0)
             /\ tracer.accum_n_max = 0 => tracer'.accum_n_max = U64_MAX
             /\ tracer.accum_n_max # 0 => tracer'.accum_n_max = 0]_vars

(* Accumulation has been switched on, unbounded, after a frame was traced. *)
C19_Witness ==
    /\ pc = "idle"
    /\ tracer.accum_n_max = U64_MAX
    /\ tracer.accum_n = 0
    /\ acc_cnt = 0
    /\ Len(Buf) > 0

---------------------------------------------------------------------------
(* Properties of trace, closest_hit and Sphere::intersect (SpecTrace).     *)

(* The levels of the running call that have queried closest_hit.           *)
Evaluated == {k \in 1..Depth : tr.stack[k].state # "called"}

RayOf(k) == BasicRay(tr.stack[k].ray.origin, tr.stack[k].ray.dir)

(* The quadratic of a ray and a sphere, |o + s*d/(2a) - c|^2 = r^2 in s:   *)
(* its discriminant and its two roots, smaller first.                      *)
Quadratic(sphere, ray) ==
    LET oc == VSub(ray.origin, sphere.centre)
        a == dot(ray.dir, ray.dir)
        b == RMul(RInt(2), dot(oc, ray.dir))
        c == RSub(dot(oc, oc), RMul(sphere.radius, sphere.radius))
        disc == RSub(RMul(b, b), RMul(RMul(RInt(4), a), c))
    IN [a |-> a, disc |-> disc,
        small |-> RSub(RNeg(b), sqrt(disc)),
        large |-> RAdd(RNeg(b), sqrt(disc))]

(* The recursion of trace is bounded: at most MAX_BOUNCES + 1 levels, the  *)
(* k-th of them with bounce budget MAX_BOUNCES - (k - 1) >= 0.             *)
TraceBounded ==
    /\ Depth <= MAX_BOUNCES + 1
    /\ \A k \in 1..Depth :
          /\ tr.stack[k].ray.bounces = MAX_BOUNCES - (k - 1)
          /\ tr.stack[k].ray.bounces >= 0

(* Every call of trace returns: each step of a running call decreases a   *)
(* natural number, the steps the call can still take.                      *)
TraceMeasure ==
    IF tr.phase # "run" THEN 0
    ELSE IF Top.state = "called" THEN 2 * Top.ray.bounces + Depth + 2
    ELSE Depth

TraceTerminates ==
    [][tr.phase = "run" => (TraceMeasure' < TraceMeasure /\ TraceMeasure' >= 0)]_vars

(* C11, as stated: the recursion of trace is bounded (at most MAX_BOUNCES  *)
(* recursive calls, the budget falling by 1 per call and never below 0),   *)
(* and a frame whose row tasks were dispatched runs to completion, that    *)
(* is, never aborts.                                                       *)
C11_TraceBoundedFrameCompletes ==
    /\ TraceBounded
    /\ pc = "panicked" => rows = <<>>

(* C13, as stated: in single-sample mode (the mode of a new Tracer) the    *)
(* pixel written for the radiance trace returned has every channel in      *)
(* [0, 1].                                                                 *)
C13_DisplayReady ==
    tr.phase = "done" =>
        LET pixel == blend(ERR_COLOR, tr.ret, blend_weight(Tracer_new))
        IN \A ch \in 1..3 : RLe(RInt(0), pixel[ch]) /\ RLe(pixel[ch], RInt(1))

MissesAll(ray, scene) ==
    \A i \in 1..Len(scene) : intersect(scene[i], ray) = None

(* C14: a level whose ray misses every sphere returns exactly              *)
(* background_color times its throughput, channel by channel; it has      *)
(* queried closest_hit and nothing else: no direct light, no sampling, no  *)
(* recursive call below it.                                                *)
C14_MissReturnsBackground ==
    \A k \in Evaluated :
        MissesAll(RayOf(k), tr.scene) =>
            /\ tr.stack[k].state = "returned"
            /\ tr.stack[k].result =
                   <<RMul(background_color[1], tr.stack[k].ray.throughput[1]),
                     RMul(background_color[2], tr.stack[k].ray.throughput[2]),
                     RMul(background_color[3], tr.stack[k].ray.throughput[3])>>
            /\ Depth = k
            /\ \A e \in 1..Len(tr.log) :
                  /\ tr.log[e][1] <= k
                  /\ tr.log[e][1] = k => tr.log[e][2] = "closest_hit"

(* An indirect ray, with a throughput other than 1, has escaped a scene    *)
(* that has spheres.                                                       *)
C14_Witness ==
    /\ tr.phase = "run"
    /\ Depth >= 2
    /\ Top.state = "returned"
    /\ tr.scene # <<>>
    /\ MissesAll(RayOf(Depth), tr.scene)
    /\ Top.ray.throughput # ones
    /\ Top.result # background_color

(* C15, as stated: for a non-negative discriminant intersect returns the   *)
(* smaller root when it is >= 0, else the larger root when that is >= 0,   *)
(* else no hit.                                                            *)
C15_RootSelection ==
    \A k \in Evaluated : \A i \in 1..Len(tr.scene) :
        LET q == Quadratic(tr.scene[i], RayOf(k))
            h == intersect(tr.scene[i], RayOf(k))
            two_a == RMul(RInt(2), q.a)
        IN RLe(RInt(0), q.disc) =>
              IF RLe(RInt(0), q.small) THEN h # None /\ h[1].t = RDiv(q.small, two_a)
              ELSE IF RLe(RInt(0), q.large) THEN h # None /\ h[1].t = RDiv(q.large, two_a)
              ELSE h = None

(* C16, as stated: a tangent ray (discriminant 0) and a ray with negative  *)
(* discriminant get None from intersect.                                   *)
C16_TangentIsMiss ==
    \A k \in Evaluated : \A i \in 1..Len(tr.scene) :
        RLe(Quadratic(tr.scene[i], RayOf(k)).disc, RInt(0)) =>
            intersect(tr.scene[i], RayOf(k)) = None

(* closest_hit returns None exactly when no sphere is hit, and otherwise a *)
(* hit no farther than the hit of any sphere.                              *)
ClosestIsMinimal ==
    \A k \in Evaluated :
        LET hit == tr.stack[k].hit IN
        /\ hit = None <=> MissesAll(RayOf(k), tr.scene)
        /\ hit # None =>
              \A i \in 1..Len(tr.scene) :
                  LET h == intersect(tr.scene[i], RayOf(k))
                  IN h # None => RLe(hit[1].t, h[1].t)

(* C17, as stated: closest_hit returns None exactly when no sphere is hit, *)
(* and otherwise a hit with t > 0 that is no farther than the hit of any   *)
(* sphere, whatever the order of the spheres.                              *)
C17_ClosestHit ==
    /\ ClosestIsMinimal
    /\ \A k \in Evaluated :
          tr.stack[k].hit # None => RLt(RInt(0), tr.stack[k].hit[1].t)

---------------------------------------------------------------------------
(* Properties of the radiance a path gathers (SpecTrace).                  *)

(* The direct light of the levels k, k+1, .. of a path, each times the     *)
(* throughput its ray arrived with.                                        *)
RECURSIVE DirectSum(_, _)
DirectSum(path, k) ==
    IF k > Len(path) THEN zeros
    ELSE VAdd(<<RMul(path[k].direct[1], path[k].throughput[1]),
                RMul(path[k].direct[2], path[k].throughput[2]),
                RMul(path[k].direct[3], path[k].throughput[3])>>,
              DirectSum(path, k + 1))

(* What a path that escapes the scene gathers at its last level.           *)
EscapeTerm(path) ==
    IF path # <<>> /\ path[Len(path)].missed
    THEN <<RMul(background_color[1], path[Len(path)].throughput[1]),
           RMul(background_color[2], path[Len(path)].throughput[2]),
           RMul(background_color[3], path[Len(path)].throughput[3])>>
    ELSE zeros

(* C21, as stated: the radiance the top-level call returns is the sum of   *)
(* the direct light of all levels of the path, each times the throughput   *)
(* accumulated up to that level, however the path ends.                    *)
C21_DirectSumOnly ==
    tr.phase = "done" => tr.ret = DirectSum(tr.path, 1)

(* C21, amended: the radiance a call returns (the top-level call, and each *)
(* level of the recursion) is the sum of the direct light of its level and *)
(* the levels below it, each times the throughput accumulated up to that   *)
(* level, plus, when the path ends by escaping the scene, the background   *)
(* colour times the throughput of the escaping ray.                        *)
C21_PathRadiance ==
    /\ tr.phase = "done" =>
          tr.ret = VAdd(DirectSum(tr.path, 1), EscapeTerm(tr.path))
    /\ tr.phase = "run" =>
          \A k \in 1..Depth :
              tr.stack[k].state = "returned" =>
                  tr.stack[k].result =
                      VAdd(DirectSum(tr.path, k), EscapeTerm(tr.path))

(* A path of three levels that gathered direct light below its first level *)
(* with a throughput other than 1, and then escaped the scene.             *)
C21_Witness ==
    /\ tr.phase = "done"
    /\ Len(tr.path) >= 3
    /\ tr.path[Len(tr.path)].missed
    /\ \E k \in 2..Len(tr.path) :
          /\ tr.path[k].direct # zeros
          /\ tr.path[k].throughput # ones
          /\ tr.ret # DirectSum(tr.path, 1)

(* The levels of the path that hit a sphere.                               *)
HitLevels == {k \in 1..Len(tr.path) : ~tr.path[k].missed}

(* C22: a level that hit recurses exactly when its ray has bounces left    *)
(* and the largest channel of the new throughput exceeds 0.01; the ray of  *)
(* the recursive call carries bounces - 1 and the new throughput.  When    *)
(* the sampled pdf is 0 the new throughput is the zero vector (not the     *)
(* result of a division by 0), the path ends at that level, and the level  *)
(* returns its direct light times the throughput it arrived with.          *)
C22_RecursionControl ==
    \A k \in HitLevels :
        LET lv == tr.path[k]
            largest == RMax(RMax(lv.next[1], lv.next[2]), lv.next[3])
        IN /\ lv.recursed <=> (lv.bounces > 0 /\ RLt(Rat(1, 100), largest))
           /\ lv.recursed /\ tr.phase = "run" /\ k < Depth =>
                 /\ tr.stack[k + 1].ray.bounces = lv.bounces - 1
                 /\ tr.stack[k + 1].ray.throughput = lv.next
           /\ lv.recursed /\ k < Len(tr.path) =>
                 /\ tr.path[k + 1].bounces = lv.bounces - 1
                 /\ tr.path[k + 1].throughput = lv.next
           /\ ~lv.recursed => Len(tr.path) = k
           /\ lv.pdf = RInt(0) =>
                 /\ lv.next = zeros
                 /\ ~lv.recursed
                 /\ tr.phase = "run" /\ k <= Depth =>
                       /\ Depth = k
                       /\ tr.stack[k].state = "returned"
                       /\ tr.stack[k].result =
                              <<RMul(lv.direct[1], lv.throughput[1]),
                                RMul(lv.direct[2], lv.throughput[2]),
                                RMul(lv.direct[3], lv.throughput[3])>>

(* A recursive call with a throughput other than 1 and bounces left has    *)
(* sampled a direction of pdf 0 on a lit surface, and has returned.        *)
C22_Witness ==
    /\ tr.phase = "run"
    /\ Depth >= 2
    /\ Len(tr.path) = Depth
    /\ Top.state = "returned"
    /\ ~tr.path[Depth].missed
    /\ tr.path[Depth].pdf = RInt(0)
    /\ tr.path[Depth].bounces > 0
    /\ tr.path[Depth].direct # zeros
    /\ tr.path[Depth].throughput # ones
    /\ tr.path[Depth - 1].recursed

---------------------------------------------------------------------------
(* Properties of direct_light (SpecTrace).                                 *)

(* The levels on the stack whose ray hit a sphere, and for such a level:   *)
(* the hit point, the vector and the unit direction to the light, n.wl,    *)
(* whether some sphere is hit by the shadow ray, whether the shadow test   *)
(* was run, and the light of an unoccluded hit.                            *)
LitLevels == {k \in Evaluated : tr.stack[k].hit # None}

HitPos(k) ==
    VAdd(tr.stack[k].ray.origin,
         VScale(tr.stack[k].ray.dir, tr.stack[k].hit[1].t))

ToLight(k) == VSub(light_pos, HitPos(k))

Wl(k) == VDiv(ToLight(k), magnitude(ToLight(k)))

Facing(k) == dot(tr.stack[k].hit[1].normal, Wl(k))

Occluded(k) ==
    \E i \in 1..Len(tr.scene) :
        intersect(tr.scene[i],
                  BasicRay(VAdd(HitPos(k), VScale(Wl(k), RAY_EPSILON)), Wl(k))) # None

ShadowTested(k) == \E e \in 1..Len(tr.log) : tr.log[e] = <<k, "any_hit">>

Unoccluded(k) ==
    LET f == brdf(Wl(k), VNeg(tr.stack[k].ray.dir),
                  tr.stack[k].hit[1].normal, tr.stack[k].hit[1].mat)
        w == VDiv(VScale(f, Facing(k)),
                  RMul(magnitude(ToLight(k)), magnitude(ToLight(k))))
    IN <<RMul(light_emission[1], w[1]), RMul(light_emission[2], w[2]),
         RMul(light_emission[3], w[3])>>

(* C23, as stated: direct_light returns the zero vector when n.wl <= 0,    *)
(* without running the shadow test; when n.wl > 0 it returns zero exactly  *)
(* when any_hit reports a hit for the shadow ray, and otherwise returns    *)
(* emission * brdf(wl, wo, n) * (n.wl) / distance^2.                       *)
C23_ZeroExactlyWhenShadowed ==
    \A k \in LitLevels :
        /\ RLe(Facing(k), RInt(0)) =>
              tr.path[k].direct = zeros /\ ~ShadowTested(k)
        /\ RLt(RInt(0), Facing(k)) =>
              /\ tr.path[k].direct = zeros <=> Occluded(k)
              /\ ~Occluded(k) => tr.path[k].direct = Unoccluded(k)

(* C23, amended: direct_light returns the zero vector when n.wl <= 0,      *)
(* without running the shadow test; when n.wl > 0 it runs the shadow test, *)
(* returns the zero vector if any_hit reports a hit for the shadow ray     *)
(* from hit_pos + eps*wl, and otherwise returns                            *)
(* emission * brdf(wl, wo, n) * (n.wl) / distance^2, which is itself the   *)
(* zero vector when the brdf is.                                           *)
C23_DirectLight ==
    \A k \in LitLevels :
        /\ RLe(Facing(k), RInt(0)) =>
              tr.path[k].direct = zeros /\ ~ShadowTested(k)
        /\ RLt(RInt(0), Facing(k)) =>
              /\ ShadowTested(k)
              /\ Occluded(k) => tr.path[k].direct = zeros
              /\ ~Occluded(k) => tr.path[k].direct = Unoccluded(k)

(* A recursive call has hit a surface that faces the light and that no     *)
(* sphere of a scene of two shadows: its direct light is the unoccluded    *)
(* value, and is not zero.                                                 *)
C23_Witness ==
    /\ tr.phase = "run"
    /\ Len(tr.scene) >= 2
    /\ \E k \in LitLevels :
          /\ k >= 2
          /\ RLt(RInt(0), Facing(k))
          /\ ShadowTested(k)
          /\ ~Occluded(k)
          /\ tr.path[k].direct # zeros
          /\ tr.path[k].direct = Unoccluded(k)

---------------------------------------------------------------------------
(* Ranges of the Tracer's counters (Spec).                                 *)

(* A step in which a trace_frame call returned.                            *)
FrameStep == pc = "idle" /\ pc' = "idle" /\ acc_cnt' >= 1

(* C24: accum_n <= accum_n_max in every reachable state; a trace_frame     *)
(* call leaves accum_n_max alone and increments accum_n, as its prologue   *)
(* left it, by exactly 1 if it is below accum_n_max and not at all         *)
(* otherwise; every change of accum_n_max resets accum_n to 0.             *)
C24_AccumWithinCap ==
    [][/\ tracer.accum_n <= tracer.accum_n_max
       /\ tracer'.accum_n <= tracer'.accum_n_max
       /\ tracer'.accum_n_max # tracer.accum_n_max => tracer'.accum_n = 0
       /\ FrameStep =>
             /\ tracer'.accum_n_max = tracer.accum_n_max
             /\ \E n0 \in {tracer.accum_n, 0} :
                   tracer'.accum_n =
                       IF n0 < tracer.accum_n_max THEN n0 + 1 ELSE n0
       /\ ~FrameStep => tracer'.accum_n \in {tracer.accum_n, 0}]_vars

(* A second frame has run at a cap of 1: the count has stopped at the cap. *)
C24_Witness ==
    /\ pc = "idle"
    /\ acc_cnt = 2
    /\ tracer.accum_n_max = 1
    /\ tracer.accum_n = tracer.accum_n_max

(* C25: 1 <= subsampling <= u8::MAX in every reachable state, so that      *)
(* subsampling - 1 in decrease_subsampling_denom does not underflow, the   *)
(* decrease floors at 1, the increase saturates at u8::MAX, and the        *)
(* divisions of TracerProgram::draw have a non-zero divisor.               *)
C25_SubsamplingInRange ==
    /\ tracer.subsampling >= 1
    /\ tracer.subsampling <= U8_MAX
    /\ tracer.subsampling - 1 >= 0
    /\ decrease_subsampling_denom(tracer).subsampling =
           IF tracer.subsampling = 1 THEN 1 ELSE tracer.subsampling - 1
    /\ increase_subsampling_denom(tracer).subsampling =
           IF tracer.subsampling = U8_MAX THEN U8_MAX ELSE tracer.subsampling + 1
    /\ \A sw \in SurfSizes, sh \in SurfSizes :
           draw_dims(sw, sh, tracer.subsampling) =
               <<sw \div tracer.subsampling, sh \div tracer.subsampling>>

(* The divisor has been decreased to 1 and a frame of the full surface     *)
(* has been traced with it.                                                *)
C25_Witness ==
    /\ pc = "idle"
    /\ tracer.subsampling = 1
    /\ tracer.dims = <<MaxSide, MaxSide>>
    /\ Len(tracer.pixel_buf) = MaxSide * MaxSide

---------------------------------------------------------------------------
(* The sentinel ERR_COLOR (SpecRows).                                      *)

(* A colour blended from radiance samples only: every channel lies within  *)
(* the range of that channel over the samples.  A cell that holds          *)
(* ERR_COLOR, or a blend with any weight of it, has a blue channel above   *)
(* every sample's.                                                         *)
FromSamples(c) ==
    \A ch \in 1..3 :
        /\ \E k \in 1..Len(Palette) : RLe(Palette[k][ch], c[ch])
        /\ \E k \in 1..Len(Palette) : RLe(c[ch], Palette[k][ch])

(* C26: a trace_frame call (w, h >= 1) in which resize_pixel_buf has run   *)
(* blends with weight 1 from accum_n = 0 and writes every cell once; when  *)
(* the row tasks of any call are done, and in every state between calls,   *)
(* no cell holds ERR_COLOR or a value blended from it.                     *)
C26_NoErrColorLeak ==
    /\ pc = "idle" =>
          \A i \in 1..Len(Buf) : Buf[i] # ERR_COLOR /\ FromSamples(Buf[i])
    /\ pc = "rows" =>
          /\ tracer.dims # entry.dims =>
                /\ tracer.accum_n = 0
                /\ frame.a = RInt(1)
          /\ AllRowsDone =>
                \A i \in 1..Len(Buf) :
                    /\ Len(access[i]) = 1
                    /\ Buf[i] # ERR_COLOR
                    /\ FromSamples(Buf[i])

(* The row tasks are done in a call that found an accumulation under way   *)
(* (accum_n >= 1) and grew the buffer with ERR_COLOR cells.                *)
C26_Witness ==
    /\ pc = "rows"
    /\ AllRowsDone
    /\ entry.accum_n >= 1
    /\ tracer.dims # entry.dims
    /\ Len(entry.pixel_buf) >= 1
    /\ Len(Buf) > Len(entry.pixel_buf)
    /\ \E i \in 1..Len(Buf) : frame.buf0[i] = ERR_COLOR

---------------------------------------------------------------------------
(* The u64 additions of trace_frame (SpecRows).                            *)

(* C27, as stated: no u64 addition of a trace_frame call overflows: the    *)
(* denominator accum_n + 1 of the blend weight, seed + y of every row and  *)
(* row seed + x of every pixel, for every frame seed.                      *)
C27_NoU64Overflow ==
    pc = "rows" =>
        /\ tracer.accum_n + 1 <= U64_MAX
        /\ \A y \in DOMAIN rows :
              /\ frame.seed + y <= U64_MAX
              /\ rows[y].x >= 0 =>
                    \A x \in 0..(frame.w - 1) : rows[y].seed + x <= U64_MAX

---------------------------------------------------------------------------
(* Seeds of successive deterministic frames (Spec).                        *)

(* The generator seed of pixel x of a row with row seed rseed, in a frame  *)
(* with the recorded dimensions.                                           *)
PixelGen(f, rseed, x) == primary_ray(Cam_new(0, 1), f.w, f.h, x, 0, rseed).rng

(* C28: with random_seed off the frame seed is accum_n and the seed of row *)
(* y is a function of the sum accum_n + y only; so, within one             *)
(* accumulation run, the generator of pixel (x, y - 1) of the frame        *)
(* dispatched with accum_n = n + 1 is that of pixel (x, y) of the frame    *)
(* before it, dispatched with accum_n = n.  A frame dispatched with        *)
(* accum_n at the cap has the frame seed accum_n_max and leaves accum_n    *)
(* at the cap, and a frame that follows a frame dispatched at the cap has  *)
(* the same frame seed.                                                    *)
C28_SeedShift ==
    [][(FrameStep /\ ~tracer'.random_seed) =>
          /\ last' # None
          /\ \A q \in {last'[i] : i \in 1..Len(last')} :
                /\ q.seed = q.accum_n
                /\ \A y \in DOMAIN q.seeds :
                      q.seeds[y] = next_u64((q.accum_n + y) % (U64_MAX + 1))
                /\ q.accum_n = tracer'.accum_n_max =>
                      /\ q.seed = tracer'.accum_n_max
                      /\ tracer'.accum_n = q.accum_n
                /\ \A p \in {last[i] : i \in 1..Len(last)} :
                      /\ q.accum_n = p.accum_n + 1 =>
                            /\ p.w = q.w /\ p.h = q.h
                            /\ DOMAIN p.seeds = DOMAIN q.seeds
                            /\ \A y \in DOMAIN q.seeds :
                                  y >= 1 =>
                                      \A x \in 0..(q.w - 1) :
                                          PixelGen(q, q.seeds[y - 1], x) =
                                              PixelGen(p, p.seeds[y], x)
                      /\ (p.accum_n = tracer'.accum_n_max
                            /\ q.accum_n = tracer'.accum_n_max) =>
                            q.seed = p.seed]_vars

(* The second frame of a run of 2 x 2 frames has returned; it was          *)
(* dispatched at the cap 1, after a frame dispatched with accum_n = 0, and *)
(* its rows have two different seeds.                                      *)
C28_Witness ==
    /\ pc = "idle"
    /\ ~tracer.random_seed
    /\ acc_cnt = 2
    /\ tracer.accum_n_max = 1
    /\ tracer.accum_n = 1
    /\ last # None
    /\ last[1].accum_n = 1
    /\ last[1].w = 2 /\ last[1].h = 2
    /\ last[1].seeds[0] # last[1].seeds[1]

====
